---- MODULE Spec2Model ----
(***************************************************************************)
(* ChessRoyale: the BoardState class (src/lib/board_state.ts), a position  *)
(* kept as twelve bitboards, its FEN decoder and its comparison / scoring, *)
(* and the memory-chess page with its puzzle loader (src/unnamed/part_000).*)
(*                                                                         *)
(* A bitboard is a JavaScript BigInt that is never negative.  It is        *)
(* modelled as the set of the positions of its 1 bits: the BigInt b is the *)
(* set { i \in Nat : (b >> i) & 1 = 1 }.  BigInt has no width, so a set    *)
(* may hold positions above 63, exactly as a BigInt may.  On such sets     *)
(*    b | (1n << i)   is  b \cup {i}                                       *)
(*    b & ~(1n << i)  is  b \ {i}                                          *)
(*    (b >> i) & 1n   is  1n exactly when i \in b                          *)
(*    a === b         is  a = b.                                           *)
(*                                                                         *)
(* A string is a sequence of one-character strings, one element per code   *)
(* point, which is how `for (const c of fenString)` walks it.              *)
(***************************************************************************)
EXTENDS Integers, Sequences, FiniteSets, TLC

VARIABLES heap, old, cloneOf, last, calls

\* the state of MemoryChessPage (useState), the positions of the puzzleLoader
\* singleton, and the callbacks waiting in the event loop
VARIABLES gameState, solutionBoard, userBoard, timeLeft, selectedPiece, score,
          positions, tasks

pageVars == <<gameState, solutionBoard, userBoard, timeLeft, selectedPiece, score,
              positions, tasks>>

vars == <<heap, old, cloneOf, last, calls, pageVars>>

-----------------------------------------------------------------------------
(* Bounds of the model *)

\* calls made on the objects in one behaviour of Spec
MaxCalls == 3

\* BoardState objects alive in one behaviour of Spec
MaxObjects == 2

\* length of the generated FEN strings of SpecCall
MaxFenLen == 3

\* positions the puzzle loader holds after a load
MaxPositions == 2

-----------------------------------------------------------------------------
(* Program constants *)

\* for (let i = 0; i < 64; i++)
NumSquares == 64

\* for (let rank = 0; rank < 8; rank++), for (let file = 0; file < 8; file++)
BoardSide == 8

Squares == 0 .. (NumSquares - 1)

\* the twelve case labels of the two switch statements
BlackLetters == {"r", "n", "b", "q", "k", "p"}
WhiteLetters == {"R", "N", "B", "Q", "K", "P"}
PieceLetters == BlackLetters \cup WhiteLetters

\* the twelve private fields
Fields ==
    {"whitePawns", "whiteKnights", "whiteBishops", "whiteRooks", "whiteQueens", "whiteKing",
     "blackPawns", "blackKnights", "blackBishops", "blackRooks", "blackQueens", "blackKing"}

-----------------------------------------------------------------------------
(* The class BoardState.  A method that assigns to the fields of `this` is *)
(* an operator from the object before the call to the object after it.     *)

\* the field initialisers: a new BoardState()
NewBoardState ==
    [whitePawns |-> {}, whiteKnights |-> {}, whiteBishops |-> {}, whiteRooks |-> {},
     whiteQueens |-> {}, whiteKing |-> {},
     blackPawns |-> {}, blackKnights |-> {}, blackBishops |-> {}, blackRooks |-> {},
     blackQueens |-> {}, blackKing |-> {}]

\* bitboard | (1n << BigInt(squareIndex))
setBit(bitboard, squareIndex) == bitboard \cup {squareIndex}

\* ((bitboard >> BigInt(squareIndex)) & 1n) === 1n
isSet(bitboard, squareIndex) == squareIndex \in bitboard

\* clearAllBitboards with the six black fields left out
clearAllBitboardsWhiteOnly(this) ==
    [this EXCEPT !.whitePawns = {}, !.whiteKnights = {}, !.whiteBishops = {},
                 !.whiteRooks = {}, !.whiteQueens = {}, !.whiteKing = {}]

clearAllBitboards(this) ==
    [this EXCEPT !.whitePawns = {}, !.whiteKnights = {}, !.whiteBishops = {},
                 !.whiteRooks = {}, !.whiteQueens = {}, !.whiteKing = {},
                 !.blackPawns = {}, !.blackKnights = {}, !.blackBishops = {},
                 !.blackRooks = {}, !.blackQueens = {}, !.blackKing = {}]

\* clearSquare with the six black fields left out
clearSquareWhiteOnly(this, squareIndex) ==
    [this EXCEPT !.whitePawns = @ \ {squareIndex}, !.whiteKnights = @ \ {squareIndex},
                 !.whiteBishops = @ \ {squareIndex}, !.whiteRooks = @ \ {squareIndex},
                 !.whiteQueens = @ \ {squareIndex}, !.whiteKing = @ \ {squareIndex}]

\* mask = ~(1n << BigInt(squareIndex)); every field &= mask
clearSquare(this, squareIndex) ==
    [this EXCEPT !.whitePawns = @ \ {squareIndex}, !.whiteKnights = @ \ {squareIndex},
                 !.whiteBishops = @ \ {squareIndex}, !.whiteRooks = @ \ {squareIndex},
                 !.whiteQueens = @ \ {squareIndex}, !.whiteKing = @ \ {squareIndex},
                 !.blackPawns = @ \ {squareIndex}, !.blackKnights = @ \ {squareIndex},
                 !.blackBishops = @ \ {squareIndex}, !.blackRooks = @ \ {squareIndex},
                 !.blackQueens = @ \ {squareIndex}, !.blackKing = @ \ {squareIndex}]

\* /\d/.test(c): without the u flag \d is [0-9]
IsDigit(c) == c \in {"0", "1", "2", "3", "4", "5", "6", "7", "8", "9"}

\* a digit read as one empty square
parseIntAsOne(c) == 1

\* parseInt(c) of one decimal digit
parseInt(c) ==
    CASE c = "0" -> 0 [] c = "1" -> 1 [] c = "2" -> 2 [] c = "3" -> 3 [] c = "4" -> 4
      [] c = "5" -> 5 [] c = "6" -> 6 [] c = "7" -> 7 [] c = "8" -> 8 [] c = "9" -> 9

\* The state of the loop of populateFromFEN: the object, the cursor, and
\* whether `break` has left the loop.

\* the loop body with an unknown character taking up a square
fenBodyCountsUnknown(st, c) ==
    IF c = " " THEN [st EXCEPT !.done = TRUE]
    ELSE IF c = "/" THEN st
    ELSE IF IsDigit(c) THEN [st EXCEPT !.squareNumber = @ + parseInt(c)]
    ELSE CASE c = "r" -> [st EXCEPT !.this.blackRooks = setBit(@, st.squareNumber),
                              !.squareNumber = @ + 1]
         [] c = "n" -> [st EXCEPT !.this.blackKnights = setBit(@, st.squareNumber),
                              !.squareNumber = @ + 1]
         [] c = "b" -> [st EXCEPT !.this.blackBishops = setBit(@, st.squareNumber),
                              !.squareNumber = @ + 1]
         [] c = "q" -> [st EXCEPT !.this.blackQueens = setBit(@, st.squareNumber),
                              !.squareNumber = @ + 1]
         [] c = "k" -> [st EXCEPT !.this.blackKing = setBit(@, st.squareNumber),
                              !.squareNumber = @ + 1]
         [] c = "p" -> [st EXCEPT !.this.blackPawns = setBit(@, st.squareNumber),
                              !.squareNumber = @ + 1]
         [] c = "R" -> [st EXCEPT !.this.whiteRooks = setBit(@, st.squareNumber),
                              !.squareNumber = @ + 1]
         [] c = "N" -> [st EXCEPT !.this.whiteKnights = setBit(@, st.squareNumber),
                              !.squareNumber = @ + 1]
         [] c = "B" -> [st EXCEPT !.this.whiteBishops = setBit(@, st.squareNumber),
                              !.squareNumber = @ + 1]
         [] c = "Q" -> [st EXCEPT !.this.whiteQueens = setBit(@, st.squareNumber),
                              !.squareNumber = @ + 1]
         [] c = "K" -> [st EXCEPT !.this.whiteKing = setBit(@, st.squareNumber),
                              !.squareNumber = @ + 1]
         [] c = "P" -> [st EXCEPT !.this.whitePawns = setBit(@, st.squareNumber),
                              !.squareNumber = @ + 1]
           [] OTHER -> [st EXCEPT !.squareNumber = @ + 1]

\* the loop body with `continue` where the space has `break`
fenBodySkipsSpace(st, c) ==
    IF c = " " THEN st
    ELSE IF c = "/" THEN st
    ELSE IF IsDigit(c) THEN [st EXCEPT !.squareNumber = @ + parseInt(c)]
    ELSE CASE c = "r" -> [st EXCEPT !.this.blackRooks = setBit(@, st.squareNumber),
                              !.squareNumber = @ + 1]
         [] c = "n" -> [st EXCEPT !.this.blackKnights = setBit(@, st.squareNumber),
                              !.squareNumber = @ + 1]
         [] c = "b" -> [st EXCEPT !.this.blackBishops = setBit(@, st.squareNumber),
                              !.squareNumber = @ + 1]
         [] c = "q" -> [st EXCEPT !.this.blackQueens = setBit(@, st.squareNumber),
                              !.squareNumber = @ + 1]
         [] c = "k" -> [st EXCEPT !.this.blackKing = setBit(@, st.squareNumber),
                              !.squareNumber = @ + 1]
         [] c = "p" -> [st EXCEPT !.this.blackPawns = setBit(@, st.squareNumber),
                              !.squareNumber = @ + 1]
         [] c = "R" -> [st EXCEPT !.this.whiteRooks = setBit(@, st.squareNumber),
                              !.squareNumber = @ + 1]
         [] c = "N" -> [st EXCEPT !.this.whiteKnights = setBit(@, st.squareNumber),
                              !.squareNumber = @ + 1]
         [] c = "B" -> [st EXCEPT !.this.whiteBishops = setBit(@, st.squareNumber),
                              !.squareNumber = @ + 1]
         [] c = "Q" -> [st EXCEPT !.this.whiteQueens = setBit(@, st.squareNumber),
                              !.squareNumber = @ + 1]
         [] c = "K" -> [st EXCEPT !.this.whiteKing = setBit(@, st.squareNumber),
                              !.squareNumber = @ + 1]
         [] c = "P" -> [st EXCEPT !.this.whitePawns = setBit(@, st.squareNumber),
                              !.squareNumber = @ + 1]
           [] OTHER -> st

\* the body of `for (const c of fenString)` for one character c
fenBody(st, c) ==
    IF c = " " THEN [st EXCEPT !.done = TRUE]
    ELSE IF c = "/" THEN st
    ELSE IF IsDigit(c) THEN [st EXCEPT !.squareNumber = @ + parseInt(c)]
    ELSE CASE c = "r" -> [st EXCEPT !.this.blackRooks = setBit(@, st.squareNumber),
                              !.squareNumber = @ + 1]
         [] c = "n" -> [st EXCEPT !.this.blackKnights = setBit(@, st.squareNumber),
                              !.squareNumber = @ + 1]
         [] c = "b" -> [st EXCEPT !.this.blackBishops = setBit(@, st.squareNumber),
                              !.squareNumber = @ + 1]
         [] c = "q" -> [st EXCEPT !.this.blackQueens = setBit(@, st.squareNumber),
                              !.squareNumber = @ + 1]
         [] c = "k" -> [st EXCEPT !.this.blackKing = setBit(@, st.squareNumber),
                              !.squareNumber = @ + 1]
         [] c = "p" -> [st EXCEPT !.this.blackPawns = setBit(@, st.squareNumber),
                              !.squareNumber = @ + 1]
         [] c = "R" -> [st EXCEPT !.this.whiteRooks = setBit(@, st.squareNumber),
                              !.squareNumber = @ + 1]
         [] c = "N" -> [st EXCEPT !.this.whiteKnights = setBit(@, st.squareNumber),
                              !.squareNumber = @ + 1]
         [] c = "B" -> [st EXCEPT !.this.whiteBishops = setBit(@, st.squareNumber),
                              !.squareNumber = @ + 1]
         [] c = "Q" -> [st EXCEPT !.this.whiteQueens = setBit(@, st.squareNumber),
                              !.squareNumber = @ + 1]
         [] c = "K" -> [st EXCEPT !.this.whiteKing = setBit(@, st.squareNumber),
                              !.squareNumber = @ + 1]
         [] c = "P" -> [st EXCEPT !.this.whitePawns = setBit(@, st.squareNumber),
                              !.squareNumber = @ + 1]
           [] OTHER -> st

\* `for (const c of fenString)` over the characters lo..hi of the string, in
\* order, from the state st: the first half of the range, then the second
\* half from the state the first half ends in; no character is read after
\* `break`.  (Halving the range keeps the evaluation shallow.)
\* the loop with '/' taking up one square instead of none
RECURSIVE fenLoopSlashIsSquare(_, _, _, _)
fenLoopSlashIsSquare(st, fenString, lo, hi) ==
    IF st.done \/ lo > hi THEN st
    ELSE IF lo = hi
         THEN IF fenString[lo] = "/" THEN [st EXCEPT !.squareNumber = @ + 1]
              ELSE fenBody(st, fenString[lo])
    ELSE fenLoopSlashIsSquare(fenLoopSlashIsSquare(st, fenString, lo, (lo + hi) \div 2),
                              fenString, (lo + hi) \div 2 + 1, hi)

RECURSIVE fenLoop(_, _, _, _)
fenLoop(st, fenString, lo, hi) ==
    IF st.done \/ lo > hi THEN st
    ELSE IF lo = hi THEN fenBody(st, fenString[lo])
    ELSE fenLoop(fenLoop(st, fenString, lo, (lo + hi) \div 2),
                 fenString, (lo + hi) \div 2 + 1, hi)

\* populateFromFEN without the clearAllBitboards call
populateFromFENNoClear(this, fenString) ==
    fenLoop([this |-> this, squareNumber |-> 0, done |-> FALSE],
            fenString, 1, Len(fenString)).this

populateFromFEN(this, fenString) ==
    fenLoop([this |-> clearAllBitboards(this), squareNumber |-> 0, done |-> FALSE],
            fenString, 1, Len(fenString)).this

\* getPieceAt testing the six white fields before the six black ones
getPieceAtWhiteFirst(this, squareIndex) ==
    IF isSet(this.whiteRooks, squareIndex) THEN "R"
    ELSE IF isSet(this.whiteKnights, squareIndex) THEN "N"
    ELSE IF isSet(this.whiteBishops, squareIndex) THEN "B"
    ELSE IF isSet(this.whiteQueens, squareIndex) THEN "Q"
    ELSE IF isSet(this.whiteKing, squareIndex) THEN "K"
    ELSE IF isSet(this.whitePawns, squareIndex) THEN "P"
    ELSE IF isSet(this.blackRooks, squareIndex) THEN "r"
    ELSE IF isSet(this.blackKnights, squareIndex) THEN "n"
    ELSE IF isSet(this.blackBishops, squareIndex) THEN "b"
    ELSE IF isSet(this.blackQueens, squareIndex) THEN "q"
    ELSE IF isSet(this.blackKing, squareIndex) THEN "k"
    ELSE IF isSet(this.blackPawns, squareIndex) THEN "p"
    ELSE " "

getPieceAt(this, squareIndex) ==
    IF isSet(this.blackRooks, squareIndex) THEN "r"
    ELSE IF isSet(this.blackKnights, squareIndex) THEN "n"
    ELSE IF isSet(this.blackBishops, squareIndex) THEN "b"
    ELSE IF isSet(this.blackQueens, squareIndex) THEN "q"
    ELSE IF isSet(this.blackKing, squareIndex) THEN "k"
    ELSE IF isSet(this.blackPawns, squareIndex) THEN "p"
    ELSE IF isSet(this.whiteRooks, squareIndex) THEN "R"
    ELSE IF isSet(this.whiteKnights, squareIndex) THEN "N"
    ELSE IF isSet(this.whiteBishops, squareIndex) THEN "B"
    ELSE IF isSet(this.whiteQueens, squareIndex) THEN "Q"
    ELSE IF isSet(this.whiteKing, squareIndex) THEN "K"
    ELSE IF isSet(this.whitePawns, squareIndex) THEN "P"
    ELSE " "

\* equals with the white king compared against the other side's black king
equalsCrossedKings(this, other) ==
    /\ this.whitePawns = other.whitePawns
    /\ this.whiteKnights = other.whiteKnights
    /\ this.whiteBishops = other.whiteBishops
    /\ this.whiteRooks = other.whiteRooks
    /\ this.whiteQueens = other.whiteQueens
    /\ this.whiteKing = other.blackKing
    /\ this.blackPawns = other.blackPawns
    /\ this.blackKnights = other.blackKnights
    /\ this.blackBishops = other.blackBishops
    /\ this.blackRooks = other.blackRooks
    /\ this.blackQueens = other.blackQueens
    /\ this.blackKing = other.blackKing

\* equals comparing the six white fields only
equalsWhiteOnly(this, other) ==
    /\ this.whitePawns = other.whitePawns
    /\ this.whiteKnights = other.whiteKnights
    /\ this.whiteBishops = other.whiteBishops
    /\ this.whiteRooks = other.whiteRooks
    /\ this.whiteQueens = other.whiteQueens
    /\ this.whiteKing = other.whiteKing

equals(this, other) ==
    /\ this.whitePawns = other.whitePawns
    /\ this.whiteKnights = other.whiteKnights
    /\ this.whiteBishops = other.whiteBishops
    /\ this.whiteRooks = other.whiteRooks
    /\ this.whiteQueens = other.whiteQueens
    /\ this.whiteKing = other.whiteKing
    /\ this.blackPawns = other.blackPawns
    /\ this.blackKnights = other.blackKnights
    /\ this.blackBishops = other.blackBishops
    /\ this.blackRooks = other.blackRooks
    /\ this.blackQueens = other.blackQueens
    /\ this.blackKing = other.blackKing

\* the scoring loop counting only the squares where both sides hold a piece
RECURSIVE correctLoopPiecesOnly(_, _, _, _)
correctLoopPiecesOnly(this, target, lo, hi) ==
    IF lo > hi THEN 0
    ELSE IF lo = hi
         THEN IF /\ getPieceAt(this, lo) = getPieceAt(target, lo)
                 /\ getPieceAt(this, lo) # " "
              THEN 1 ELSE 0
    ELSE correctLoopPiecesOnly(this, target, lo, (lo + hi) \div 2)
         + correctLoopPiecesOnly(this, target, (lo + hi) \div 2 + 1, hi)

\* what `for (let i = ...; i < ...; i++)` adds to `correct` while i runs from
\* lo to hi: one for each i at which the two objects read the same.  (Halving
\* the range keeps the evaluation shallow.)
RECURSIVE correctLoop(_, _, _, _)
correctLoop(this, target, lo, hi) ==
    IF lo > hi THEN 0
    ELSE IF lo = hi
         THEN IF getPieceAt(this, lo) = getPieceAt(target, lo) THEN 1 ELSE 0
    ELSE correctLoop(this, target, lo, (lo + hi) \div 2)
         + correctLoop(this, target, (lo + hi) \div 2 + 1, hi)

howManySquaresCorrect(this, target) ==
    IF equals(this, target) THEN 64 ELSE 0 + correctLoop(this, target, 0, NumSquares - 1)

\* setPieceAtSquare without the clearSquare call
setPieceAtSquareNoClear(this, squareIndex, piece) ==
    LET cleared == this IN
    CASE piece = "P" -> [cleared EXCEPT !.whitePawns = setBit(@, squareIndex)]
      [] piece = "N" -> [cleared EXCEPT !.whiteKnights = setBit(@, squareIndex)]
      [] piece = "B" -> [cleared EXCEPT !.whiteBishops = setBit(@, squareIndex)]
      [] piece = "R" -> [cleared EXCEPT !.whiteRooks = setBit(@, squareIndex)]
      [] piece = "Q" -> [cleared EXCEPT !.whiteQueens = setBit(@, squareIndex)]
      [] piece = "K" -> [cleared EXCEPT !.whiteKing = setBit(@, squareIndex)]
      [] piece = "p" -> [cleared EXCEPT !.blackPawns = setBit(@, squareIndex)]
      [] piece = "n" -> [cleared EXCEPT !.blackKnights = setBit(@, squareIndex)]
      [] piece = "b" -> [cleared EXCEPT !.blackBishops = setBit(@, squareIndex)]
      [] piece = "r" -> [cleared EXCEPT !.blackRooks = setBit(@, squareIndex)]
      [] piece = "q" -> [cleared EXCEPT !.blackQueens = setBit(@, squareIndex)]
      [] piece = "k" -> [cleared EXCEPT !.blackKing = setBit(@, squareIndex)]
      [] OTHER -> cleared

\* setPieceAtSquare clearing the square only for the thirteen case labels
setPieceAtSquareKnownOnly(this, squareIndex, piece) ==
    LET cleared == clearSquare(this, squareIndex) IN
    CASE piece = "P" -> [cleared EXCEPT !.whitePawns = setBit(@, squareIndex)]
      [] piece = "N" -> [cleared EXCEPT !.whiteKnights = setBit(@, squareIndex)]
      [] piece = "B" -> [cleared EXCEPT !.whiteBishops = setBit(@, squareIndex)]
      [] piece = "R" -> [cleared EXCEPT !.whiteRooks = setBit(@, squareIndex)]
      [] piece = "Q" -> [cleared EXCEPT !.whiteQueens = setBit(@, squareIndex)]
      [] piece = "K" -> [cleared EXCEPT !.whiteKing = setBit(@, squareIndex)]
      [] piece = "p" -> [cleared EXCEPT !.blackPawns = setBit(@, squareIndex)]
      [] piece = "n" -> [cleared EXCEPT !.blackKnights = setBit(@, squareIndex)]
      [] piece = "b" -> [cleared EXCEPT !.blackBishops = setBit(@, squareIndex)]
      [] piece = "r" -> [cleared EXCEPT !.blackRooks = setBit(@, squareIndex)]
      [] piece = "q" -> [cleared EXCEPT !.blackQueens = setBit(@, squareIndex)]
      [] piece = "k" -> [cleared EXCEPT !.blackKing = setBit(@, squareIndex)]
      [] piece = " " -> cleared
      [] OTHER -> this

\* setPieceAtSquare calling clearAllBitboards where it calls clearSquare
setPieceAtSquareClearsBoard(this, squareIndex, piece) ==
    LET cleared == clearAllBitboards(this) IN
    CASE piece = "P" -> [cleared EXCEPT !.whitePawns = setBit(@, squareIndex)]
      [] piece = "N" -> [cleared EXCEPT !.whiteKnights = setBit(@, squareIndex)]
      [] piece = "B" -> [cleared EXCEPT !.whiteBishops = setBit(@, squareIndex)]
      [] piece = "R" -> [cleared EXCEPT !.whiteRooks = setBit(@, squareIndex)]
      [] piece = "Q" -> [cleared EXCEPT !.whiteQueens = setBit(@, squareIndex)]
      [] piece = "K" -> [cleared EXCEPT !.whiteKing = setBit(@, squareIndex)]
      [] piece = "p" -> [cleared EXCEPT !.blackPawns = setBit(@, squareIndex)]
      [] piece = "n" -> [cleared EXCEPT !.blackKnights = setBit(@, squareIndex)]
      [] piece = "b" -> [cleared EXCEPT !.blackBishops = setBit(@, squareIndex)]
      [] piece = "r" -> [cleared EXCEPT !.blackRooks = setBit(@, squareIndex)]
      [] piece = "q" -> [cleared EXCEPT !.blackQueens = setBit(@, squareIndex)]
      [] piece = "k" -> [cleared EXCEPT !.blackKing = setBit(@, squareIndex)]
      [] OTHER -> cleared

setPieceAtSquare(this, squareIndex, piece) ==
    LET cleared == clearSquare(this, squareIndex) IN
    CASE piece = "P" -> [cleared EXCEPT !.whitePawns = setBit(@, squareIndex)]
      [] piece = "N" -> [cleared EXCEPT !.whiteKnights = setBit(@, squareIndex)]
      [] piece = "B" -> [cleared EXCEPT !.whiteBishops = setBit(@, squareIndex)]
      [] piece = "R" -> [cleared EXCEPT !.whiteRooks = setBit(@, squareIndex)]
      [] piece = "Q" -> [cleared EXCEPT !.whiteQueens = setBit(@, squareIndex)]
      [] piece = "K" -> [cleared EXCEPT !.whiteKing = setBit(@, squareIndex)]
      [] piece = "p" -> [cleared EXCEPT !.blackPawns = setBit(@, squareIndex)]
      [] piece = "n" -> [cleared EXCEPT !.blackKnights = setBit(@, squareIndex)]
      [] piece = "b" -> [cleared EXCEPT !.blackBishops = setBit(@, squareIndex)]
      [] piece = "r" -> [cleared EXCEPT !.blackRooks = setBit(@, squareIndex)]
      [] piece = "q" -> [cleared EXCEPT !.blackQueens = setBit(@, squareIndex)]
      [] piece = "k" -> [cleared EXCEPT !.blackKing = setBit(@, squareIndex)]
      [] OTHER -> cleared

\* getBoardAs2DArray with rank and file exchanged in the square index
getBoardAs2DArrayFileMajor(this) ==
    [rank \in 1 .. BoardSide |->
        [file \in 1 .. BoardSide |->
            getPieceAt(this, (file - 1) * 8 + (rank - 1))]]

\* board[rank][file], both counted from 1 as TLA+ sequences are
getBoardAs2DArray(this) ==
    [rank \in 1 .. BoardSide |->
        [file \in 1 .. BoardSide |->
            getPieceAt(this, (rank - 1) * 8 + (file - 1))]]

\* clone without the copy of blackKing: the field keeps its initialiser 0n
cloneForgetsBlackKing(this) ==
    [whitePawns |-> this.whitePawns, whiteKnights |-> this.whiteKnights,
     whiteBishops |-> this.whiteBishops, whiteRooks |-> this.whiteRooks,
     whiteQueens |-> this.whiteQueens, whiteKing |-> this.whiteKing,
     blackPawns |-> this.blackPawns, blackKnights |-> this.blackKnights,
     blackBishops |-> this.blackBishops, blackRooks |-> this.blackRooks,
     blackQueens |-> this.blackQueens, blackKing |-> {}]

clone(this) ==
    [whitePawns |-> this.whitePawns, whiteKnights |-> this.whiteKnights,
     whiteBishops |-> this.whiteBishops, whiteRooks |-> this.whiteRooks,
     whiteQueens |-> this.whiteQueens, whiteKing |-> this.whiteKing,
     blackPawns |-> this.blackPawns, blackKnights |-> this.blackKnights,
     blackBishops |-> this.blackBishops, blackRooks |-> this.blackRooks,
     blackQueens |-> this.blackQueens, blackKing |-> this.blackKing]

-----------------------------------------------------------------------------
(* Strings the callers pass *)

\* "rnbqkbnr/pppppppp/8/8/8/8/PPPPPPPP/RNBQKBNR"
StartFEN ==
    <<"r", "n", "b", "q", "k", "b", "n", "r", "/", "p", "p", "p", "p", "p", "p", "p",
      "p", "/", "8", "/", "8", "/", "8", "/", "8", "/", "P", "P", "P", "P", "P", "P",
      "P", "P", "/", "R", "N", "B", "Q", "K", "B", "N", "R">>

\* "rnbqkbnr/pppppppp/8/8/8/8/PPPPPPPP/RNBQKBNR w KQkq - 0 1"
StartFENFull ==
    <<"r", "n", "b", "q", "k", "b", "n", "r", "/", "p", "p", "p", "p", "p", "p", "p",
      "p", "/", "8", "/", "8", "/", "8", "/", "8", "/", "P", "P", "P", "P", "P", "P",
      "P", "P", "/", "R", "N", "B", "Q", "K", "B", "N", "R", " ", "w", " ", "K", "Q",
      "k", "q", " ", "-", " ", "0", " ", "1">>

\* "8/8/8/8/8/8/8/8"
EmptyFEN ==
    <<"8", "/", "8", "/", "8", "/", "8", "/", "8", "/", "8", "/", "8", "/", "8">>

\* "r7/8/8/8/8/8/8/8"
LoneRookFEN ==
    <<"r", "7", "/", "8", "/", "8", "/", "8", "/", "8", "/", "8", "/", "8", "/", "8">>

\* "8/8/8/8/8/8/8/8/Q": one rank too many, the cursor is at 64 when Q is read
OverlongFEN ==
    <<"8", "/", "8", "/", "8", "/", "8", "/", "8", "/", "8", "/", "8", "/", "8", "/",
      "Q">>

\* the characters the generated strings are made of: piece letters of both
\* colours, digits inside and outside 1..8, the separator, the space and a
\* character that is none of these
FenChars == {"r", "Q", "1", "8", "9", "0", "/", " ", "x"}

\* every string over FenChars of length at most MaxFenLen
BoundedFens == UNION {[1 .. n -> FenChars] : n \in 0 .. MaxFenLen}

NamedFens == {StartFEN, StartFENFull, EmptyFEN, LoneRookFEN, OverlongFEN}

\* fenString of populateFromFEN, in call sequences and in single calls
FenInputs == {StartFEN, LoneRookFEN, OverlongFEN, <<>>}
FenArgs == BoundedFens \cup NamedFens

\* piece of setPieceAtSquare: the twelve letters, the blank marker, and
\* strings that are neither ('x', the empty string)
PieceInputs == {"Q", "r", "P", " ", "x"}
PieceArgs == PieceLetters \cup {" ", "x", ""}

\* squareIndex, in call sequences: the first square, the first square of the
\* second rank and the last square
SquareInputs == {0, BoardSide, NumSquares - 1}

-----------------------------------------------------------------------------
(* State: the BoardState objects alive (heap[o] is the object with         *)
(* reference o), for each the object it was cloned from (0: constructed),  *)
(* the last call with its arguments and what it returned, the objects as   *)
(* they were before that call (old), and the number of calls made.         *)

Objects == DOMAIN heap

\* useState<number>(5)
InitialTimeLeft == 5

\* the score when it is null: a number howManySquaresCorrect never returns
ScoreNull == -1

\* no page is mounted: the page variables hold the useState initial values,
\* with no BoardState (reference 0), and nothing waits in the event loop
NoPage ==
    /\ gameState = "LOADING"
    /\ solutionBoard = 0
    /\ userBoard = 0
    /\ timeLeft = InitialTimeLeft
    /\ selectedPiece = ""
    /\ score = ScoreNull
    /\ positions = <<>>
    /\ tasks = {}

NoCall == [op |-> "none", this |-> 0, args |-> <<>>, ret |-> "void"]

Init ==
    /\ heap = <<NewBoardState>>
    /\ old = heap
    /\ cloneOf = <<0>>
    /\ last = NoCall
    /\ calls = 0
    /\ NoPage

\* new BoardState()
Construct ==
    /\ calls < MaxCalls
    /\ UNCHANGED pageVars
    /\ Len(heap) < MaxObjects
    /\ heap' = Append(heap, NewBoardState)
    /\ cloneOf' = Append(cloneOf, 0)
    /\ last' = [op |-> "new", this |-> Len(heap) + 1, args |-> <<>>, ret |-> "void"]
    /\ calls' = calls + 1
    /\ old' = heap

PopulateFromFEN(o, fenString) ==
    /\ calls < MaxCalls
    /\ UNCHANGED pageVars
    /\ heap' = [heap EXCEPT ![o] = populateFromFEN(heap[o], fenString)]
    /\ last' = [op |-> "populateFromFEN", this |-> o, args |-> <<fenString>>,
                ret |-> "void"]
    /\ calls' = calls + 1
    /\ old' = heap
    /\ UNCHANGED cloneOf

GetPieceAt(o, squareIndex) ==
    /\ calls < MaxCalls
    /\ UNCHANGED pageVars
    /\ last' = [op |-> "getPieceAt", this |-> o, args |-> <<squareIndex>>,
                ret |-> getPieceAt(heap[o], squareIndex)]
    /\ calls' = calls + 1
    /\ old' = heap
    /\ UNCHANGED <<heap, cloneOf>>

Equals(o, other) ==
    /\ calls < MaxCalls
    /\ UNCHANGED pageVars
    /\ last' = [op |-> "equals", this |-> o, args |-> <<other>>,
                ret |-> equals(heap[o], heap[other])]
    /\ calls' = calls + 1
    /\ old' = heap
    /\ UNCHANGED <<heap, cloneOf>>

HowManySquaresCorrect(o, target) ==
    /\ calls < MaxCalls
    /\ UNCHANGED pageVars
    /\ last' = [op |-> "howManySquaresCorrect", this |-> o, args |-> <<target>>,
                ret |-> howManySquaresCorrect(heap[o], heap[target])]
    /\ calls' = calls + 1
    /\ old' = heap
    /\ UNCHANGED <<heap, cloneOf>>

SetPieceAtSquare(o, squareIndex, piece) ==
    /\ calls < MaxCalls
    /\ UNCHANGED pageVars
    /\ heap' = [heap EXCEPT ![o] = setPieceAtSquare(heap[o], squareIndex, piece)]
    /\ last' = [op |-> "setPieceAtSquare", this |-> o, args |-> <<squareIndex, piece>>,
                ret |-> "void"]
    /\ calls' = calls + 1
    /\ old' = heap
    /\ UNCHANGED cloneOf

GetBoardAs2DArray(o) ==
    /\ calls < MaxCalls
    /\ UNCHANGED pageVars
    /\ last' = [op |-> "getBoardAs2DArray", this |-> o, args |-> <<>>,
                ret |-> getBoardAs2DArray(heap[o])]
    /\ calls' = calls + 1
    /\ old' = heap
    /\ UNCHANGED <<heap, cloneOf>>

\* the object returned is a new one; ret is its reference
Clone(o) ==
    /\ calls < MaxCalls
    /\ UNCHANGED pageVars
    /\ Len(heap) < MaxObjects
    /\ heap' = Append(heap, clone(heap[o]))
    /\ cloneOf' = Append(cloneOf, o)
    /\ last' = [op |-> "clone", this |-> o, args |-> <<>>, ret |-> Len(heap) + 1]
    /\ calls' = calls + 1
    /\ old' = heap

\* Call sequences: up to MaxCalls calls on up to MaxObjects objects
Next ==
    \/ Construct
    \/ \E o \in Objects, fenString \in FenInputs : PopulateFromFEN(o, fenString)
    \/ \E o \in Objects, squareIndex \in SquareInputs : GetPieceAt(o, squareIndex)
    \/ \E o \in Objects, other \in Objects : Equals(o, other)
    \/ \E o \in Objects, target \in Objects : HowManySquaresCorrect(o, target)
    \/ \E o \in Objects, squareIndex \in SquareInputs, piece \in PieceInputs :
          SetPieceAtSquare(o, squareIndex, piece)
    \/ \E o \in Objects : GetBoardAs2DArray(o)
    \/ \E o \in Objects : Clone(o)

Spec == Init /\ [][Next]_vars

\* Single calls: one object, populated from a FEN string the sources name
\* or left as constructed, and one call on it with every argument
SeedFens == {<<>>, StartFEN, LoneRookFEN}

InitCall ==
    /\ \E fenString \in SeedFens :
          heap = <<populateFromFEN(NewBoardState, fenString)>>
    /\ old = heap
    /\ cloneOf = <<0>>
    /\ last = NoCall
    /\ calls = 0
    /\ NoPage

NextCall ==
    \/ \E fenString \in FenArgs : calls = 0 /\ PopulateFromFEN(1, fenString)
    \/ \E squareIndex \in Squares : calls = 0 /\ GetPieceAt(1, squareIndex)
    \/ calls = 0 /\ Equals(1, 1)
    \/ calls = 0 /\ HowManySquaresCorrect(1, 1)
    \/ \E squareIndex \in Squares, piece \in PieceArgs :
          calls = 0 /\ SetPieceAtSquare(1, squareIndex, piece)
    \/ calls = 0 /\ GetBoardAs2DArray(1)

SpecCall == InitCall /\ [][NextCall]_vars

\* Lookups on arbitrary field values: one object whose fields each either
\* hold one square or nothing, any number of fields holding it at once, and
\* one getPieceAt call on it
InitLookup ==
    /\ \E overlapping \in SUBSET Fields, squareIndex \in SquareInputs :
          heap = <<[f \in Fields |-> IF f \in overlapping THEN {squareIndex} ELSE {}]>>
    /\ old = heap
    /\ cloneOf = <<0>>
    /\ last = NoCall
    /\ calls = 0
    /\ NoPage

NextLookup == \E squareIndex \in SquareInputs : calls = 0 /\ GetPieceAt(1, squareIndex)

SpecLookup == InitLookup /\ [][NextLookup]_vars

-----------------------------------------------------------------------------
(* The puzzle loader and the page MemoryChessPage.  A handler is one step:  *)
(* the state setters it calls, the render that follows and the effects of  *)
(* that render.  solutionBoard and userBoard are references into heap; the *)
(* objects the page no longer refers to are dropped when a handler makes   *)
(* new ones, so that the objects the page held before the handler are      *)
(* heap[1] and heap[2] after it.                                           *)

\* the FEN column of the rows of a puzzle file
PuzzleFens == {StartFENFull, LoneRookFEN, EmptyFEN}

\* what loadPositionFromFile may leave in this.positions: nothing (the fetch
\* or the parse failed, or the file has no row), or up to MaxPositions strings
Corpora == UNION {[1 .. n -> PuzzleFens] : n \in 0 .. MaxPositions}

\* the strings getRandomPosition() may return, one for each value of
\* Math.floor(Math.random() * positionsToUse.length)
getRandomPosition(positionsToUse) ==
    IF Len(positionsToUse) = 0 THEN {<<>>}
    ELSE {positionsToUse[randomIndex + 1] : randomIndex \in 0 .. (Len(positionsToUse) - 1)}

\* the callbacks that may wait in the event loop: the continuation of
\* loadPuzzles after its await, and () => setTimeLeft(timeLeft - 1) with the
\* value it will set
LoadTask == [kind |-> "loadPuzzles", timeLeft |-> 0]
TimeoutTask(newTimeLeft) == [kind |-> "timeout", timeLeft |-> newTimeLeft]

setTimeout(pending, timer) == pending \cup {timer}
clearTimeout(pending, timer) == pending \ {timer}

\* the timer effect going to PLAYING without waiting for timeLeft to be 0
timerEffectSkipsCountdown(gs, tl, pending) ==
    IF gs = "MEMORIZING"
    THEN [gameState |-> "PLAYING", tasks |-> pending]
    ELSE [gameState |-> gs, tasks |-> pending]

\* the timer effect, run with the gameState and timeLeft of one render: what
\* gameState is and which callbacks wait after it.  `return clearTimeout(timer)`
\* calls clearTimeout at once and returns undefined, so no cleanup is registered.
timerEffect(gs, tl, pending) ==
    IF gs = "MEMORIZING" /\ tl > 0
    THEN LET timer == TimeoutTask(tl - 1) IN
         [gameState |-> gs, tasks |-> clearTimeout(setTimeout(pending, timer), timer)]
    ELSE IF gs = "MEMORIZING" /\ tl = 0
    THEN [gameState |-> "PLAYING", tasks |-> pending]
    ELSE [gameState |-> gs, tasks |-> pending]

\* the render after gameState and timeLeft went from gs0, tl0 to gs1, tl1: the
\* timer effect runs when one of its dependencies [gameState, timeLeft]
\* changed, and again when it set gameState itself
afterRender(gs0, tl0, gs1, tl1, pending) ==
    IF gs1 = gs0 /\ tl1 = tl0 THEN [gameState |-> gs1, tasks |-> pending]
    ELSE LET r == timerEffect(gs1, tl1, pending) IN
         IF r.gameState = gs1 THEN r ELSE timerEffect(r.gameState, tl1, r.tasks)

\* the objects the page refers to
Live == <<heap[solutionBoard], heap[userBoard]>>

\* a handler that returns before it sets anything
NothingChanges ==
    /\ old' = heap
    /\ UNCHANGED <<heap, cloneOf, gameState, solutionBoard, userBoard, timeLeft,
                   selectedPiece, score, tasks>>

\* startNewPuzzle without the `if (!fen)` return
startNewPuzzleNoCheck(fen) ==
    LET solution == populateFromFEN(NewBoardState, fen)
        r == afterRender(gameState, timeLeft, "MEMORIZING", timeLeft, tasks)
    IN  /\ old' = Live
        /\ heap' = Live \o <<solution, NewBoardState>>
        /\ cloneOf' = <<0, 0, 0, 0>>
        /\ solutionBoard' = Len(Live) + 1
        /\ userBoard' = Len(Live) + 2
        /\ gameState' = r.gameState
        /\ tasks' = r.tasks
        /\ score' = ScoreNull
        /\ selectedPiece' = ""
        /\ UNCHANGED timeLeft

\* startNewPuzzle, with fen what getRandomPosition returned
startNewPuzzle(fen) ==
    IF fen = <<>> THEN NothingChanges
    ELSE LET solution == populateFromFEN(NewBoardState, fen)
             r == afterRender(gameState, timeLeft, "MEMORIZING", timeLeft, tasks)
         IN  /\ old' = Live
             /\ heap' = Live \o <<solution, NewBoardState>>
             /\ cloneOf' = <<0, 0, 0, 0>>
             /\ solutionBoard' = Len(Live) + 1
             /\ userBoard' = Len(Live) + 2
             /\ gameState' = r.gameState
             /\ tasks' = r.tasks
             /\ score' = ScoreNull
             /\ selectedPiece' = ""
             /\ UNCHANGED timeLeft

checkSolution ==
    /\ score' = howManySquaresCorrect(heap[userBoard], heap[solutionBoard])
    /\ old' = heap
    /\ UNCHANGED <<heap, cloneOf, gameState, solutionBoard, userBoard, timeLeft,
                   selectedPiece, tasks>>

\* setUserBoard(newBoard) without setScore(null)
replaceUserBoardKeepsScore(newBoard, source) ==
    /\ old' = Live
    /\ heap' = Live \o <<newBoard>>
    /\ cloneOf' = <<0, 0, source>>
    /\ solutionBoard' = 1
    /\ userBoard' = Len(Live) + 1
    /\ UNCHANGED <<score, gameState, timeLeft, selectedPiece, tasks>>

\* setUserBoard(newBoard); setScore(null)
replaceUserBoard(newBoard, source) ==
    /\ old' = Live
    /\ heap' = Live \o <<newBoard>>
    /\ cloneOf' = <<0, 0, source>>
    /\ solutionBoard' = 1
    /\ userBoard' = Len(Live) + 1
    /\ score' = ScoreNull
    /\ UNCHANGED <<gameState, timeLeft, selectedPiece, tasks>>

\* the event loop runs a callback that waits
AsyncCallback ==
    \E task \in tasks :
        /\ last' = [op |-> task.kind, this |-> 0, args |-> <<>>, ret |-> "void"]
        /\ old' = heap
        /\ UNCHANGED <<heap, cloneOf, calls, solutionBoard, userBoard, selectedPiece, score>>
        /\ IF task.kind = "loadPuzzles"
           THEN \E corpus \in Corpora :
                    LET r == afterRender(gameState, timeLeft, "MENU", timeLeft,
                                         tasks \ {task})
                    IN  /\ positions' = corpus
                        /\ gameState' = r.gameState
                        /\ tasks' = r.tasks
                        /\ UNCHANGED timeLeft
           ELSE LET r == afterRender(gameState, timeLeft, gameState, task.timeLeft,
                                     tasks \ {task})
                IN  /\ timeLeft' = task.timeLeft
                    /\ gameState' = r.gameState
                    /\ tasks' = r.tasks
                    /\ UNCHANGED positions

\* startNewPuzzle called from the page
StartNewPuzzle ==
    \E fen \in getRandomPosition(positions) :
        /\ startNewPuzzle(fen)
        /\ last' = [op |-> "startNewPuzzle", this |-> 0, args |-> <<fen>>, ret |-> "void"]
        /\ UNCHANGED <<calls, positions>>

\* e.key of the keydown events: Space, C, N in both cases, and another key
KeyInputs == {" ", "c", "C", "n", "N", "x"}

HandleKeyPress(key) ==
    /\ last' = [op |-> "handleKeyPress", this |-> 0, args |-> <<key>>, ret |-> "void"]
    /\ UNCHANGED <<calls, positions>>
    /\ IF gameState # "PLAYING" THEN NothingChanges
       ELSE IF key = " " THEN checkSolution
       ELSE IF key \in {"c", "C"} THEN replaceUserBoard(NewBoardState, 0)
       ELSE IF key \in {"n", "N"}
            THEN \E fen \in getRandomPosition(positions) : startNewPuzzle(fen)
       ELSE NothingChanges

\* handleSquareClick without the test of gameState
HandleSquareClickUnguarded(squareIndex) ==
    /\ last' = [op |-> "handleSquareClick", this |-> 0, args |-> <<squareIndex>>,
                ret |-> "void"]
    /\ UNCHANGED <<calls, positions>>
    /\ IF selectedPiece # ""
       THEN replaceUserBoard(
                setPieceAtSquare(clone(heap[userBoard]), squareIndex, selectedPiece), 2)
       ELSE NothingChanges

\* without a selected piece the clone is made and dropped
HandleSquareClick(squareIndex) ==
    /\ last' = [op |-> "handleSquareClick", this |-> 0, args |-> <<squareIndex>>,
                ret |-> "void"]
    /\ UNCHANGED <<calls, positions>>
    /\ IF gameState # "PLAYING" THEN NothingChanges
       ELSE IF selectedPiece # ""
            THEN replaceUserBoard(
                     setPieceAtSquare(clone(heap[userBoard]), squareIndex, selectedPiece), 2)
       ELSE NothingChanges

\* handleRightClick writing to userBoard itself: newBoard = userBoard
HandleRightClickNoClone(squareIndex) ==
    /\ last' = [op |-> "handleRightClick", this |-> 0, args |-> <<squareIndex>>,
                ret |-> "void"]
    /\ UNCHANGED <<calls, positions>>
    /\ IF gameState # "PLAYING" THEN NothingChanges
       ELSE /\ heap' = [heap EXCEPT ![userBoard] = setPieceAtSquare(@, squareIndex, " ")]
            /\ old' = heap
            /\ score' = ScoreNull
            /\ UNCHANGED <<cloneOf, gameState, solutionBoard, userBoard, timeLeft,
                           selectedPiece, tasks>>

HandleRightClick(squareIndex) ==
    /\ last' = [op |-> "handleRightClick", this |-> 0, args |-> <<squareIndex>>,
                ret |-> "void"]
    /\ UNCHANGED <<calls, positions>>
    /\ IF gameState # "PLAYING" THEN NothingChanges
       ELSE replaceUserBoard(setPieceAtSquare(clone(heap[userBoard]), squareIndex, " "), 2)

\* the page after its first render and its mount effects: loadPuzzles waits for
\* the file, the timer effect found LOADING and did nothing
InitPage ==
    /\ heap = <<NewBoardState, NewBoardState>>
    /\ old = heap
    /\ cloneOf = <<0, 0>>
    /\ last = NoCall
    /\ calls = 0
    /\ gameState = "LOADING"
    /\ solutionBoard = 1
    /\ userBoard = 2
    /\ timeLeft = InitialTimeLeft
    /\ selectedPiece = ""
    /\ score = ScoreNull
    /\ positions = <<>>
    /\ tasks = {LoadTask}

NextPage ==
    \/ AsyncCallback
    \/ StartNewPuzzle
    \/ \E key \in KeyInputs : HandleKeyPress(key)
    \/ \E squareIndex \in SquareInputs : HandleSquareClick(squareIndex)
    \/ \E squareIndex \in SquareInputs : HandleRightClick(squareIndex)

SpecPage == InitPage /\ [][NextPage]_vars

\* the event loop does not leave a callback waiting forever
SpecPageFair == SpecPage /\ WF_vars(AsyncCallback)

\* The handlers in each phase of the game.  The page is taken in LOADING as
\* mounted, in MENU after a load, in MEMORIZING after startNewPuzzle, and in
\* PLAYING, the phase the timer effect is written to lead to once timeLeft is
\* 0, with a user board that already holds pieces, a score that is null or
\* was computed by checkSolution, and a piece selected or none.
GameStates == {"LOADING", "MENU", "MEMORIZING", "PLAYING"}

\* selectedPiece: none, or a piece of either colour
PaletteInputs == {"", "Q", "r"}

\* positions: none loaded, or one row
LoadedInputs == {<<>>} \cup {<<fen>> : fen \in PuzzleFens}

InitHandlers ==
    \E gs \in GameStates, corpus \in LoadedInputs, fen \in PuzzleFens, userFen \in SeedFens,
       piece \in PaletteInputs, scored \in BOOLEAN :
        LET solution == IF gs \in {"MEMORIZING", "PLAYING"}
                        THEN populateFromFEN(NewBoardState, fen) ELSE NewBoardState
            user == IF gs = "PLAYING"
                    THEN populateFromFEN(NewBoardState, userFen) ELSE NewBoardState
        IN  /\ gs = "LOADING" => corpus = <<>>
            /\ gs \in {"MEMORIZING", "PLAYING"} => fen \in getRandomPosition(corpus)
            /\ heap = <<solution, user>>
            /\ old = heap
            /\ cloneOf = <<0, 0>>
            /\ last = NoCall
            /\ calls = 0
            /\ gameState = gs
            /\ solutionBoard = 1
            /\ userBoard = 2
            /\ timeLeft = IF gs = "PLAYING" THEN 0 ELSE InitialTimeLeft
            /\ selectedPiece = piece
            /\ score = IF gs = "PLAYING" /\ scored
                       THEN howManySquaresCorrect(user, solution) ELSE ScoreNull
            /\ positions = corpus
            /\ tasks = IF gs = "LOADING" THEN {LoadTask} ELSE {}

SpecHandlers == InitHandlers /\ [][NextPage]_vars

-----------------------------------------------------------------------------
(* Properties *)

\* the call that was made last
LastIs(op) == last.op = op

\* the fields of an object that have bit i set
Occupants(this, i) == {f \in Fields : isSet(this[f], i)}

\* every bit position set in some field of an object
BitsOf(this) == UNION {this[f] : f \in Fields}

\* C1: one piece per square.  In every object reachable from a constructed
\* one by populateFromFEN, setPieceAtSquare and clone, every square index (and
\* every bit position that is set at all) is set in at most one of the twelve
\* bitboards.
C1_OnePiecePerSquare ==
    \A o \in Objects :
        \A i \in Squares \cup BitsOf(heap[o]) :
            Cardinality(Occupants(heap[o], i)) <= 1

\* a square holding a piece was overwritten with a different piece
C1_Witness ==
    /\ LastIs("setPieceAtSquare")
    /\ last.args[2] \in PieceLetters
    /\ getPieceAt(old[last.this], last.args[1]) \in PieceLetters \ {last.args[2]}
    /\ Cardinality(Occupants(heap[last.this], last.args[1])) = 1

\* C2: write then read.  After setPieceAtSquare(i, x) with x one of the twelve
\* letters, getPieceAt(i) is x, whatever the square held before.
C2_WriteThenRead ==
    (LastIs("setPieceAtSquare") /\ last.args[2] \in PieceLetters)
        => getPieceAt(heap[last.this], last.args[1]) = last.args[2]

\* the white rook of the last square was overwritten with a black king
C2_Witness ==
    /\ LastIs("setPieceAtSquare")
    /\ last.args = <<63, "k">>
    /\ getPieceAt(old[last.this], 63) = "R"
    /\ getPieceAt(heap[last.this], 63) = "k"

\* the squares at which two objects read the same
Matching(a, b) == {i \in Squares : getPieceAt(a, i) = getPieceAt(b, i)}

\* C3: scoring rule.  howManySquaresCorrect returns a number in 0..64, the
\* number of squares 0..63 at which getPieceAt agrees on the two objects,
\* squares blank on both sides included; a target with a piece at index 0 only
\* against a blank object scores 63.
C3_ScoringRule ==
    LastIs("howManySquaresCorrect") =>
        LET user == heap[last.this]
            target == heap[last.args[1]]
        IN  /\ last.ret \in 0 .. 64
            /\ last.ret = Cardinality(Matching(user, target))
            /\ (BitsOf(user) = {} /\ BitsOf(target) = {0}) => last.ret = 63

\* a blank object was scored against one with a piece at index 0 only
C3_Witness ==
    /\ LastIs("howManySquaresCorrect")
    /\ BitsOf(heap[last.this]) = {}
    /\ BitsOf(heap[last.args[1]]) = {0}
    /\ last.ret = 63

\* C4: for every reachable object p, p.equals(p) is true and
\* p.howManySquaresCorrect(p) is 64.
C4_Reflexive ==
    /\ \A o \in Objects :
          /\ equals(heap[o], heap[o])
          /\ howManySquaresCorrect(heap[o], heap[o]) = 64
    /\ (LastIs("equals") /\ last.args[1] = last.this) => last.ret = TRUE
    /\ (LastIs("howManySquaresCorrect") /\ last.args[1] = last.this) => last.ret = 64

\* an object that holds pieces was compared with itself
C4_Witness ==
    /\ LastIs("equals")
    /\ last.args[1] = last.this
    /\ BitsOf(heap[last.this]) # {}
    /\ last.ret = TRUE

\* C5: clone independence.  Right after c = p.clone(), p.equals(c) and p is as
\* it was; and every call leaves every object other than its receiver as it
\* was, so no call on a clone changes its source and no call on the source
\* changes the clone.
C5_CloneIndependence ==
    /\ LastIs("clone") =>
          /\ equals(heap[last.this], heap[last.ret])
          /\ heap[last.this] = old[last.this]
    /\ \A o \in DOMAIN old : o # last.this => heap[o] = old[o]

\* a clone of an object that holds pieces was changed, and differs from it now
C5_Witness ==
    /\ last.op \in {"setPieceAtSquare", "populateFromFEN"}
    /\ cloneOf[last.this] # 0
    /\ BitsOf(heap[cloneOf[last.this]]) # {}
    /\ equals(old[last.this], heap[cloneOf[last.this]])
    /\ ~ equals(heap[last.this], heap[cloneOf[last.this]])

\* an object with square i taken out of every field
Without(this, i) == [f \in Fields |-> this[f] \ {i}]

\* C6: erase on blank or unrecognized piece.  After setPieceAtSquare(i, piece)
\* with piece not one of the twelve letters, bit i is clear in all twelve
\* bitboards, getPieceAt(i) is blank, and the object equals the one before the
\* call with square i emptied.
C6_EraseOnBlankOrUnknown ==
    (LastIs("setPieceAtSquare") /\ last.args[2] \notin PieceLetters) =>
        LET i == last.args[1] IN
        /\ getPieceAt(heap[last.this], i) = " "
        /\ \A f \in Fields : ~ isSet(heap[last.this][f], i)
        /\ equals(heap[last.this], Without(old[last.this], i))

\* a square holding a piece was written with 'x'
C6_Witness ==
    /\ LastIs("setPieceAtSquare")
    /\ last.args[2] = "x"
    /\ getPieceAt(old[last.this], last.args[1]) \in PieceLetters
    /\ getPieceAt(heap[last.this], last.args[1]) = " "

\* the index of the first space of a string, Len + 1 when it has none
FirstSpace(s) ==
    IF \E k \in 1 .. Len(s) : s[k] = " "
    THEN CHOOSE k \in 1 .. Len(s) : s[k] = " " /\ \A j \in 1 .. (k - 1) : s[j] # " "
    ELSE Len(s) + 1

\* the piece-placement part of a string: what stands before its first space
Placement(s) == SubSeq(s, 1, FirstSpace(s) - 1)

\* a string with the character c put in after its first k characters
Insert(s, k, c) == SubSeq(s, 1, k) \o <<c>> \o SubSeq(s, k + 1, Len(s))

\* the characters the decoder is said to give a meaning to
EmptyRunDigits == {"1", "2", "3", "4", "5", "6", "7", "8"}
MeaningfulChars == EmptyRunDigits \cup {"/", " "} \cup PieceLetters

\* characters outside MeaningfulChars: the two other digits, letters that
\* stand for no piece, punctuation
OtherChars == {"0", "9", "x", "w", "-"}

\* inserting c anywhere in the piece-placement part of the string last decoded
\* gives the same object
InsertionIgnored(c) ==
    LET fen == last.args[1] IN
    \A k \in 0 .. Len(Placement(fen)) :
        populateFromFEN(old[last.this], Insert(fen, k, c)) = heap[last.this]

\* C7 as claimed: every character outside {'1'..'8', '/', space, the 12 piece
\* letters} inserted in the piece-placement part leaves the decoded object the
\* same.
C7_AnyOtherCharIgnored ==
    LastIs("populateFromFEN") => \A c \in OtherChars : InsertionIgnored(c)

\* C7, amended: every character outside {'1'..'9', '/', space, the 12 piece
\* letters} inserted in the piece-placement part leaves the decoded object the
\* same ('9' is a digit to the decoder and moves the cursor by nine).
C7_NonDigitOtherCharIgnored ==
    LastIs("populateFromFEN") => \A c \in OtherChars \ {"9"} : InsertionIgnored(c)

\* a string with an 'x' between two pieces was decoded: the pieces are on
\* neighbouring squares
C7_Witness ==
    /\ LastIs("populateFromFEN")
    /\ last.args[1] = <<"r", "x", "Q">>
    /\ getPieceAt(heap[last.this], 0) = "r"
    /\ getPieceAt(heap[last.this], 1) = "Q"

\* n empty squares
Blanks(n) == [j \in 1 .. n |-> " "]

\* the number of empty squares a digit of 1..8 stands for
EmptyRun(c) == CHOOSE d \in 1 .. 8 : <<"1", "2", "3", "4", "5", "6", "7", "8">>[d] = c

\* the left-to-right expansion of the characters lo..hi of a piece-placement
\* string: a letter is its square, a digit d is d empty squares, '/' is nothing
RECURSIVE ExpandRange(_, _, _)
ExpandRange(s, lo, hi) ==
    IF lo > hi THEN <<>>
    ELSE IF lo = hi
         THEN IF s[lo] \in PieceLetters THEN <<s[lo]>>
              ELSE IF s[lo] \in EmptyRunDigits THEN Blanks(EmptyRun(s[lo]))
              ELSE <<>>
    ELSE ExpandRange(s, lo, (lo + hi) \div 2) \o ExpandRange(s, (lo + hi) \div 2 + 1, hi)

Expand(s) == ExpandRange(s, 1, Len(s))

\* made of piece letters, digits 1..8 and '/', describing at most 64 squares
WellFormed(s) ==
    /\ \A k \in 1 .. Len(s) : s[k] \in PieceLetters \cup EmptyRunDigits \cup {"/"}
    /\ Len(Expand(s)) <= NumSquares

\* C8: decoder against the reference expansion.  After populateFromFEN of a
\* well-formed string, square i reads what the i-th square of the expansion is,
\* and blank from the end of the expansion on; for the start position index 0
\* is 'r', 4 'k', 56 'R', 60 'K', 8..15 'p', 48..55 'P' and 16..47 blank.
C8_DecodesExpansion ==
    (LastIs("populateFromFEN") /\ WellFormed(last.args[1])) =>
        LET this == heap[last.this]
            squares == Expand(last.args[1])
        IN  /\ \A i \in Squares :
                  getPieceAt(this, i) =
                      IF i < Len(squares) THEN squares[i + 1] ELSE " "
            /\ last.args[1] = StartFEN =>
                  /\ getPieceAt(this, 0) = "r"
                  /\ getPieceAt(this, 4) = "k"
                  /\ getPieceAt(this, 56) = "R"
                  /\ getPieceAt(this, 60) = "K"
                  /\ \A i \in 8 .. 15 : getPieceAt(this, i) = "p"
                  /\ \A i \in 48 .. 55 : getPieceAt(this, i) = "P"
                  /\ \A i \in 16 .. 47 : getPieceAt(this, i) = " "

\* the start position was decoded into an object that held something else
C8_Witness ==
    /\ LastIs("populateFromFEN")
    /\ last.args[1] = StartFEN
    /\ BitsOf(old[last.this]) = {0}
    /\ getPieceAt(heap[last.this], 60) = "K"

\* C9: populateFromFEN is a full reset.  The object after the call is the one
\* the same string gives on a newly constructed object, whatever it held
\* before.
C9_FullReset ==
    LastIs("populateFromFEN") =>
        equals(heap[last.this], populateFromFEN(NewBoardState, last.args[1]))

\* the one-rook string was decoded into an object holding the start position
C9_Witness ==
    /\ LastIs("populateFromFEN")
    /\ last.args[1] = LoneRookFEN
    /\ getPieceAt(old[last.this], 60) = "K"
    /\ BitsOf(heap[last.this]) = {0}

\* C10: the first space ends decoding.  A string with a space decodes to what
\* its part before the first space decodes to.
C10_FirstSpaceEnds ==
    (LastIs("populateFromFEN") /\ FirstSpace(last.args[1]) <= Len(last.args[1])) =>
        equals(heap[last.this],
               populateFromFEN(old[last.this], Placement(last.args[1])))

\* a full FEN record, with piece letters in its castling field, was decoded
C10_Witness ==
    /\ LastIs("populateFromFEN")
    /\ last.args[1] = StartFENFull
    /\ BitsOf(heap[last.this]) = (0 .. 15) \cup (48 .. 63)

\* C11: empty-board decoding.  populateFromFEN("8/8/8/8/8/8/8/8") and
\* populateFromFEN("") each leave, whatever the object held before, an object
\* in which every square 0..63 reads blank and which equals a new BoardState.
C11_EmptyBoardDecoding ==
    (LastIs("populateFromFEN") /\ last.args[1] \in {EmptyFEN, <<>>}) =>
        /\ \A i \in Squares : getPieceAt(heap[last.this], i) = " "
        /\ equals(heap[last.this], NewBoardState)
        /\ equals(NewBoardState, heap[last.this])

\* "8/8/8/8/8/8/8/8" was decoded into an object holding the start position
C11_Witness ==
    /\ LastIs("populateFromFEN")
    /\ last.args[1] = EmptyFEN
    /\ BitsOf(old[last.this]) = (0 .. 15) \cup (48 .. 63)
    /\ BitsOf(heap[last.this]) = {}

\* the positions at hand: every object as it is and as it was before the last
\* call
Positions == {heap[o] : o \in Objects} \cup {old[o] : o \in DOMAIN old}

\* all twelve corresponding bitboards are equal
SameBitboards(a, b) == \A f \in Fields : a[f] = b[f]

\* C12: equals(a, b) is true exactly when the twelve corresponding bitboards
\* of a and b are equal, and over the reachable positions it is symmetric and
\* transitive.
C12_EqualsIsBitboardEquality ==
    /\ \A a, b \in Positions :
          /\ equals(a, b) <=> SameBitboards(a, b)
          /\ equals(a, b) <=> equals(b, a)
          /\ \A c \in Positions : (equals(a, b) /\ equals(b, c)) => equals(a, c)
    /\ LastIs("equals") =>
          last.ret = SameBitboards(heap[last.this], heap[last.args[1]])

\* two different objects that hold the same pieces were compared
C12_Witness ==
    /\ LastIs("equals")
    /\ last.this # last.args[1]
    /\ BitsOf(heap[last.this]) # {}
    /\ last.ret = TRUE

\* C13: getBoardAs2DArray returns an 8 by 8 grid whose entry at row r, column
\* f (each 0..7) is getPieceAt(8*r + f), so row 0 holds the squares 0..7 and
\* row 7 the squares 56..63; the object is left as it was.
C13_GridIsRankMajor ==
    LastIs("getBoardAs2DArray") =>
        LET this == heap[last.this]
            board == last.ret
        IN  /\ DOMAIN board = 1 .. 8
            /\ \A r \in 0 .. 7 :
                  /\ DOMAIN board[r + 1] = 1 .. 8
                  /\ \A f \in 0 .. 7 : board[r + 1][f + 1] = getPieceAt(this, 8 * r + f)
            /\ \A i \in 0 .. 7 : board[1][i + 1] = getPieceAt(this, i)
            /\ \A i \in 56 .. 63 : board[8][i - 55] = getPieceAt(this, i)
            /\ heap = old

\* the grid of the start position was taken: black rook first in row 0, white
\* king fifth in row 7
C13_Witness ==
    /\ LastIs("getBoardAs2DArray")
    /\ BitsOf(heap[last.this]) = (0 .. 15) \cup (48 .. 63)
    /\ last.ret[1][1] = "r"
    /\ last.ret[2][1] = "p"
    /\ last.ret[8][5] = "K"

\* C14: bitboards stay 64-bit words.  After any sequence of populateFromFEN
\* and setPieceAtSquare calls every one of the twelve bitboards of every object
\* has only bits 0..63 set.
C14_BitboardsStay64Bit ==
    \A o \in Objects : \A f \in Fields : heap[o][f] \subseteq Squares

\* C15: a perfect score means equality.  For any two reachable objects
\* howManySquaresCorrect returns 64 if and only if equals returns true.
C15_PerfectScoreIffEquals ==
    /\ \A a, b \in Objects :
          (howManySquaresCorrect(heap[a], heap[b]) = 64) <=> equals(heap[a], heap[b])
    /\ LastIs("howManySquaresCorrect") =>
          ((last.ret = 64) <=> equals(heap[last.this], heap[last.args[1]]))

\* C16: single-square writes.  setPieceAtSquare(i, piece) leaves bit j of all
\* twelve bitboards, and getPieceAt(j), as they were for every j other than i.
C16_SingleSquareWrite ==
    LastIs("setPieceAtSquare") =>
        LET before == old[last.this]
            after == heap[last.this]
        IN  \A j \in (Squares \cup BitsOf(before) \cup BitsOf(after)) \ {last.args[1]} :
                /\ \A f \in Fields : isSet(after[f], j) = isSet(before[f], j)
                /\ getPieceAt(after, j) = getPieceAt(before, j)

\* the first square of the start position was overwritten with a white queen:
\* the other thirty-one pieces stand
C16_Witness ==
    /\ LastIs("setPieceAtSquare")
    /\ last.args = <<0, "Q">>
    /\ BitsOf(old[last.this]) = (0 .. 15) \cup (48 .. 63)
    /\ getPieceAt(heap[last.this], 0) = "Q"
    /\ getPieceAt(heap[last.this], 1) = "n"

\* a string with its k-th character taken out
RemoveAt(s, k) == SubSeq(s, 1, k - 1) \o SubSeq(s, k + 1, Len(s))

\* a string with every '/' taken out
RECURSIVE StripSlashes(_, _, _)
StripSlashes(s, lo, hi) ==
    IF lo > hi THEN <<>>
    ELSE IF lo = hi THEN (IF s[lo] = "/" THEN <<>> ELSE <<s[lo]>>)
    ELSE StripSlashes(s, lo, (lo + hi) \div 2) \o StripSlashes(s, (lo + hi) \div 2 + 1, hi)

\* C17: rank separators carry no meaning.  Taking a '/' out of the string
\* decoded, taking all of them out, or putting one in anywhere gives the same
\* object (moving a '/' is taking it out and putting it in elsewhere).
C17_SeparatorsIgnored ==
    LastIs("populateFromFEN") =>
        LET fen == last.args[1]
            before == old[last.this]
            after == heap[last.this]
        IN  /\ \A k \in 1 .. Len(fen) :
                  fen[k] = "/" => populateFromFEN(before, RemoveAt(fen, k)) = after
            /\ populateFromFEN(before, StripSlashes(fen, 1, Len(fen))) = after
            /\ \A k \in 0 .. Len(fen) : populateFromFEN(before, Insert(fen, k, "/")) = after

\* a string with a '/' between two pieces was decoded: the pieces are on
\* neighbouring squares
C17_Witness ==
    /\ LastIs("populateFromFEN")
    /\ last.args[1] = <<"r", "/", "Q">>
    /\ getPieceAt(heap[last.this], 0) = "r"
    /\ getPieceAt(heap[last.this], 1) = "Q"

\* the twelve bitboards in the order black rook, knight, bishop, queen, king,
\* pawn, then white rook, knight, bishop, queen, king, pawn, with their letters
PriorityOrder ==
    <<[field |-> "blackRooks", letter |-> "r"], [field |-> "blackKnights", letter |-> "n"],
      [field |-> "blackBishops", letter |-> "b"], [field |-> "blackQueens", letter |-> "q"],
      [field |-> "blackKing", letter |-> "k"], [field |-> "blackPawns", letter |-> "p"],
      [field |-> "whiteRooks", letter |-> "R"], [field |-> "whiteKnights", letter |-> "N"],
      [field |-> "whiteBishops", letter |-> "B"], [field |-> "whiteQueens", letter |-> "Q"],
      [field |-> "whiteKing", letter |-> "K"], [field |-> "whitePawns", letter |-> "P"]>>

\* the places in PriorityOrder of the bitboards that have bit i set
Hits(this, i) == {k \in DOMAIN PriorityOrder : isSet(this[PriorityOrder[k].field], i)}

\* C18: lookup priority.  For any values of the twelve bitboards, several with
\* bit i set included, getPieceAt(i) returns the letter of the first bitboard
\* with bit i set in the order of PriorityOrder, and ' ' when none has it set.
C18_LookupPriority ==
    LastIs("getPieceAt") =>
        LET hits == Hits(heap[last.this], last.args[1]) IN
        last.ret = IF hits = {} THEN " "
                   ELSE PriorityOrder[CHOOSE k \in hits : \A m \in hits : k <= m].letter

\* a square set in the black queens, the white king and the white pawns was
\* looked up
C18_Witness ==
    /\ LastIs("getPieceAt")
    /\ Occupants(heap[last.this], last.args[1]) = {"blackQueens", "whiteKing", "whitePawns"}
    /\ last.ret = "q"

\* C19: the memorizing countdown completes.  Whenever gameState is MEMORIZING
\* with timeLeft = n > 0 the timer fires and timeLeft becomes n - 1, and every
\* puzzle that enters MEMORIZING eventually reaches PLAYING.
C19_CountdownCompletes ==
    /\ \A n \in 1 .. InitialTimeLeft :
          (gameState = "MEMORIZING" /\ timeLeft = n) ~> (timeLeft = n - 1)
    /\ (gameState = "MEMORIZING") ~> (gameState = "PLAYING")

\* the positions startNewPuzzle may store in solutionBoard
Solutions == {populateFromFEN(NewBoardState, positions[k]) : k \in DOMAIN positions}

\* C20: game-phase order.  gameState starts at LOADING and changes only from
\* LOADING to MENU when the puzzle load finishes, to MEMORIZING by
\* startNewPuzzle with a non-empty FEN, and from MEMORIZING to PLAYING when
\* timeLeft is 0; so LOADING and MENU are never re-entered and PLAYING is
\* entered from MEMORIZING only.
C20_PhaseOrder ==
    /\ gameState = "LOADING"
    /\ [][gameState' # gameState =>
            \/ /\ gameState = "LOADING"
               /\ gameState' = "MENU"
               /\ last'.op = "loadPuzzles"
            \/ /\ gameState' = "MEMORIZING"
               /\ \/ last'.op = "startNewPuzzle" /\ last'.args[1] # <<>>
                  \/ last'.op = "handleKeyPress" /\ last'.args[1] \in {"n", "N"}
               /\ heap'[solutionBoard'] \in Solutions
            \/ /\ gameState = "MEMORIZING"
               /\ gameState' = "PLAYING"
               /\ timeLeft' = 0]_vars

\* a second puzzle was started while the first was being memorized: the start
\* position replaces the lone rook as the solution
C20_Witness ==
    /\ gameState = "MEMORIZING"
    /\ LastIs("startNewPuzzle")
    /\ last.args[1] = StartFENFull
    /\ BitsOf(old[1]) = {0}
    /\ BitsOf(heap[solutionBoard]) = (0 .. 15) \cup (48 .. 63)

\* the clicks and the key presses
EditEvents == {"handleSquareClick", "handleRightClick", "handleKeyPress"}

\* the handler of the step made BoardState objects and stored them
StoresNewBoard == Len(heap') > Len(old')

\* C21: edits only while playing.  In LOADING, MENU and MEMORIZING a square
\* click, a right click and a key press (Space, C, N or another key) leave
\* userBoard, solutionBoard, score and gameState as they were; a click or a key
\* press replaces userBoard only in PLAYING.
C21_EditsOnlyWhilePlaying ==
    [][last'.op \in EditEvents =>
          /\ gameState # "PLAYING" =>
                /\ heap' = heap
                /\ userBoard' = userBoard
                /\ solutionBoard' = solutionBoard
                /\ score' = score
                /\ gameState' = gameState
          /\ (StoresNewBoard \/ heap'[userBoard'] # heap[userBoard]) =>
                gameState = "PLAYING"]_vars

\* a square was clicked with the white queen selected while memorizing: the
\* user board is still empty
C21_Witness ==
    /\ LastIs("handleSquareClick")
    /\ gameState = "MEMORIZING"
    /\ selectedPiece = "Q"
    /\ heap = old
    /\ BitsOf(heap[userBoard]) = {}
    /\ BitsOf(heap[solutionBoard]) # {}

\* the step is a square click, a right click, Space or C
IsEditStep ==
    \/ last'.op \in {"handleSquareClick", "handleRightClick"}
    \/ last'.op = "handleKeyPress" /\ last'.args[1] \in {" ", "c", "C"}

\* the step is startNewPuzzle, called from the page or by the N key
IsNewPuzzleStep ==
    \/ last'.op = "startNewPuzzle"
    \/ last'.op = "handleKeyPress" /\ last'.args[1] \in {"n", "N"}

\* the object userBoard referred to before the step, as it is after the step
PreviousUserBoard == IF StoresNewBoard THEN heap'[2] ELSE heap'[userBoard]

\* the step writes a square of the user board: a right click, or a square
\* click with a piece selected, while playing
WritesSquare ==
    /\ gameState = "PLAYING"
    /\ \/ last'.op = "handleRightClick"
       \/ last'.op = "handleSquareClick" /\ selectedPiece # ""

\* C22: copy-then-replace keeps the solution intact.  No square click, right
\* click, Space or C changes a bitboard of solutionBoard; solutionBoard changes
\* through startNewPuzzle only; every write of a square goes to a new object,
\* a clone of the user board, and the object userBoard referred to before is as
\* it was.
C22_CopyThenReplace ==
    [][/\ IsEditStep => heap'[solutionBoard'] = heap[solutionBoard]
       /\ heap'[solutionBoard'] # heap[solutionBoard] => IsNewPuzzleStep
       /\ PreviousUserBoard = heap[userBoard]
       /\ WritesSquare =>
             /\ StoresNewBoard
             /\ userBoard' \notin DOMAIN old'
             /\ cloneOf'[userBoard'] = 2
             /\ getPieceAt(heap'[userBoard'], last'.args[1]) =
                    (IF last'.op = "handleRightClick" THEN " " ELSE selectedPiece)]_vars

\* the black rook of the first square was taken off by a right click while
\* playing: the board the page held before still has it, the new one has not
C22_Witness ==
    /\ LastIs("handleRightClick")
    /\ gameState = "PLAYING"
    /\ last.args[1] = 0
    /\ userBoard = 3
    /\ getPieceAt(heap[2], 0) = "r"
    /\ getPieceAt(heap[userBoard], 0) = " "
    /\ BitsOf(heap[solutionBoard]) # {}

\* the score shown is null or the score of the boards the page holds
ScoreIsCurrent ==
    score # ScoreNull =>
        score = howManySquaresCorrect(heap[userBoard], heap[solutionBoard])

\* C23: the displayed score is never stale.  In every state of the page a
\* score that is not null is howManySquaresCorrect of the current userBoard
\* against the current solutionBoard, and every step that replaces userBoard
\* or solutionBoard (a square click with a piece selected, a right click, the
\* C key, startNewPuzzle) sets score to null.
C23_ScoreNeverStale ==
    /\ ScoreIsCurrent
    /\ [][/\ ScoreIsCurrent'
          /\ (\/ StoresNewBoard
              \/ heap'[userBoard'] # heap[userBoard]
              \/ heap'[solutionBoard'] # heap[solutionBoard]) => score' = ScoreNull]_vars

\* Space was pressed while playing on a user board that is partly right: the
\* score is the number of squares that match, neither 0 nor 64
C23_Witness ==
    /\ LastIs("handleKeyPress")
    /\ last.args[1] = " "
    /\ gameState = "PLAYING"
    /\ score = Cardinality(Matching(heap[userBoard], heap[solutionBoard]))
    /\ score \in 1 .. 63
    /\ BitsOf(heap[userBoard]) # {}

\* the strings the loader holds
Loaded == {positions[k] : k \in DOMAIN positions}

\* C24: empty corpus.  When the loader holds no position getRandomPosition
\* returns the empty string, and startNewPuzzle then leaves gameState,
\* solutionBoard, userBoard, score and selectedPiece as they were and makes no
\* BoardState (populateFromFEN is not called); when positions are loaded
\* getRandomPosition returns one of them.
C24_EmptyCorpus ==
    /\ positions = <<>> /\ getRandomPosition(positions) = {<<>>}
    /\ [][/\ IF positions' = <<>> THEN getRandomPosition(positions') = {<<>>}
             ELSE getRandomPosition(positions') = Loaded'
          /\ last'.op = "startNewPuzzle" =>
                IF positions = <<>>
                THEN /\ last'.args[1] = <<>>
                     /\ heap' = heap
                     /\ gameState' = gameState
                     /\ solutionBoard' = solutionBoard
                     /\ userBoard' = userBoard
                     /\ score' = score
                     /\ selectedPiece' = selectedPiece
                ELSE /\ last'.args[1] \in Loaded
                     /\ last'.args[1] # <<>>
                     /\ heap'[solutionBoard'] =
                            populateFromFEN(NewBoardState, last'.args[1])]_vars

\* startNewPuzzle was called in MENU after a load that found no position
C24_Witness ==
    /\ LastIs("startNewPuzzle")
    /\ last.args[1] = <<>>
    /\ gameState = "MENU"
    /\ positions = <<>>
    /\ heap = old
    /\ BitsOf(heap[solutionBoard]) = {}

====
